---- MODULE Spec2Model ----
(***************************************************************************)
(* The layered event dispatcher of xair-remote: EventDispatcher            *)
(* (push_handlers, pop_handlers, dispatch) as implemented twice, in        *)
(* src/xair/events.py and src/xair/uevents.py.  The variable impl selects  *)
(* the implementation; every step below is translated from both files and  *)
(* branches on impl where they differ.                                     *)
(***************************************************************************)
EXTENDS Integers, Sequences, FiniteSets, TLC

\* ------------------------------------------------------------------ bounds
MaxDepth == 2       \* layers on the handler stack
MaxEvents == 3      \* events given to one dispatch call
MaxClasses == 4     \* Event subclasses declared
MaxEnd == 2         \* largest min_val / max_val given to RotaryEncoder, besides the default
MaxClicks == 2      \* largest clicks given to RotaryEncoder
MaxLines == 3       \* command lines given to do_osc

\* ---------------------------------------------------------------- fixtures
None == "None"

Impls == {"events", "uevents"}

Tags == {"key", "click"}

\* The callables used as handlers, with what each does when called with an
\* event: "T" returns a truthy value, "F" returns None, "E" raises an
\* exception derived from Exception (ValueError), "B" raises one derived
\* from BaseException only (KeyboardInterrupt).
Behaviour ==
    [handle_click |-> "F", handle_key |-> "F",
     Handler_handle_click |-> "T", Handler_handle_key |-> "F",
     Boom_a_click |-> "F", Broken_a_click |-> "F",
     h_true |-> "T", h_raise |-> "E", h_interrupt |-> "B",
     on_click |-> "T", h_push |-> "F"]

Callables == DOMAIN Behaviour

\* The on_event decorations of the program text: callable -> tag.
Decorated ==
    [handle_click |-> "click",
     Handler_handle_click |-> "click", Handler_handle_key |-> "key",
     Boom_a_click |-> "click", Broken_a_click |-> "click",
     on_click |-> "click"]

\* Positional subscriber sources.  A "function" source is a plain callable;
\* an "object" source lists its attributes in the order inspect.getmembers
\* returns them (sorted by name).  An attribute is a bound "method" of the
\* function func, a "property" whose getter raises RuntimeError, or a "list"
\* (an instance attribute holding a list, which is not hashable).
SrcHandleClick == [kind |-> "function", func |-> "handle_click", members |-> <<>>]

SrcHandler ==
    [kind |-> "object", func |-> None,
     members |-> << [name |-> "__init__", kind |-> "method", func |-> "Handler___init__"],
                    [name |-> "handle_click", kind |-> "method", func |-> "Handler_handle_click"],
                    [name |-> "handle_key", kind |-> "method", func |-> "Handler_handle_key"] >>]

SrcBoom ==
    [kind |-> "object", func |-> None,
     members |-> << [name |-> "a_click", kind |-> "method", func |-> "Boom_a_click"],
                    [name |-> "boom", kind |-> "property", func |-> None] >>]

SrcBroken ==
    [kind |-> "object", func |-> None,
     members |-> << [name |-> "a_click", kind |-> "method", func |-> "Broken_a_click"],
                    [name |-> "items", kind |-> "list", func |-> None] >>]

\* Two more free functions: on_click is decorated for 'click', handle_key
\* carries no decoration until on_event is applied to it.
SrcOnClick == [kind |-> "function", func |-> "on_click", members |-> <<>>]

SrcHandleKey == [kind |-> "function", func |-> "handle_key", members |-> <<>>]

\* Keyword bindings: a sequence of <<tag, handler>> in call order.
PushCalls ==
    { [args |-> <<SrcHandleClick>>, kwargs |-> << <<"key", "handle_key">> >>],
      [args |-> <<SrcHandler>>, kwargs |-> <<>>],
      [args |-> <<>>, kwargs |-> << <<"key", "h_true">> >>],
      [args |-> <<>>, kwargs |-> << <<"key", "h_raise">> >>],
      [args |-> <<>>, kwargs |-> << <<"key", "h_interrupt">> >>],
      [args |-> <<SrcBroken>>, kwargs |-> <<>>],
      [args |-> <<SrcHandleClick, SrcBoom>>, kwargs |-> << <<"key", "handle_key">> >>] }

\* Values passed to dispatch: an instance of the Event subclass KeyEvent
\* (class attribute type = 'key'), Event(type='click'), and a str.
KeyEvent == [cls |-> "KeyEvent", clstype |-> "key", kwtype |-> None]
ClickEvent == [cls |-> "Event", clstype |-> None, kwtype |-> "click"]
BadValue == [cls |-> "str", clstype |-> None, kwtype |-> None]

EventValues == {KeyEvent, ClickEvent, BadValue}

RECURSIVE SeqsUpTo(_, _)
SeqsUpTo(S, k) ==
    IF k = 0 THEN {<<>>}
    ELSE LET shorter == SeqsUpTo(S, k - 1)
         IN  shorter \cup {Append(s, x) : s \in {t \in shorter : Len(t) = k - 1}, x \in S}

DispatchCalls == SeqsUpTo(EventValues, MaxEvents) \ {<<>>}

\* The registration paths of push_handlers, one call for each way a tag can
\* be written: a keyword binding over a positional source's tag, two
\* positional sources for one tag, an object and a function, no argument at
\* all, the empty string as keyword, and a function decorated only later.
RegisterCalls ==
    { [args |-> <<SrcHandleClick>>, kwargs |-> << <<"click", "h_true">> >>],
      [args |-> <<SrcHandleClick, SrcOnClick>>, kwargs |-> <<>>],
      [args |-> <<SrcHandler, SrcHandleClick>>, kwargs |-> << <<"key", "h_raise">> >>],
      [args |-> <<>>, kwargs |-> <<>>],
      [args |-> <<>>, kwargs |-> << <<"", "h_true">> >>],
      [args |-> <<SrcHandleKey>>, kwargs |-> <<>>] }

\* An instance of an Event subclass whose class attribute type is '', and
\* Event() built without a type.
EmptyEvent == [cls |-> "EmptyEvent", clstype |-> "", kwtype |-> None]
NoTypeEvent == [cls |-> "Event", clstype |-> None, kwtype |-> None]

RegisterEvents == {KeyEvent, ClickEvent, EmptyEvent, NoTypeEvent}

\* What on_event is applied to, and with which argument: a tag, or an Event
\* subclass.
BindFuncs == {"handle_key", "handle_click"}

BindTargets ==
    { [kind |-> "str", value |-> "key", type |-> None],
      [kind |-> "str", value |-> "click", type |-> None],
      [kind |-> "class", value |-> "KeyEvent", type |-> "key"] }

\* A handler that calls push_handlers on its own dispatcher while it handles
\* an event, and then returns None: the call it makes.
Reentrant == [h_push |-> [args |-> <<>>, kwargs |-> << <<"key", "h_true">> >>]]

ReentrantCalls ==
    { [args |-> <<>>, kwargs |-> << <<"key", "h_push">> >>],
      [args |-> <<SrcHandleClick>>, kwargs |-> << <<"key", "handle_key">> >>],
      [args |-> <<>>, kwargs |-> << <<"key", "h_raise">> >>] }

ReentrantDispatches == SeqsUpTo({KeyEvent, ClickEvent}, 2) \ {<<>>}

\* ------------------------------------------------------------------- state
VARIABLES
    impl,       \* which module the dispatcher comes from
    _handler_to_event,  \* the handler markers (func._handler_for in events.py): callable -> tag
    hasStack,   \* the dispatcher has a _handler_stack attribute
    _handler_stack,  \* the layers, oldest first
    made,       \* for each layer, the push_handlers call that created it
    pc,         \* "idle", or the position inside dispatch: "next", "walk", "done"
    op,         \* the last call started
    outcome,    \* how it ended
    pre,        \* the stack when it started
    ret,        \* the value pop_handlers returned
    events,     \* dispatch's argument tuple
    n,          \* index of the event being dispatched
    it,         \* reversed(self._handler_stack): index of the next layer
    trace,        \* handler invocations of the current dispatch call
    given,      \* the arguments of the last on_event or class declaration
    registry,   \* Registrable.registry: <<tag, class>> pairs in key order
    declared,   \* the Event subclasses declared so far, in order
    encoder,    \* the fields of the RotaryEncoder object (rotary.py), None before it is made
    queue,      \* XAirCmdApp.queue (xaircmd.py): the replies put by osc_recv, oldest first
    net,        \* the messages sent whose reply has not reached osc_recv yet
    cmd,        \* the command thread: its position in do_osc and the message it sent
    reports     \* what each do_osc invocation printed, in order

vars == <<impl, _handler_to_event, hasStack, _handler_stack, made, pc, op, outcome, pre, ret,
          events, n, it, trace, given, registry, declared, encoder, queue, net, cmd, reports>>

\* ------------------------------------------------------------ pure helpers
EmptyLayer == [t \in {} |-> None]

\* Mutant: the tag is ignored and any handler of the layer returned.
LayerGetAny(layer, tag) ==
    IF DOMAIN layer = {} THEN None ELSE layer[CHOOSE t \in DOMAIN layer : TRUE]

\* Mutant: a tag that the layer already holds keeps its handler.
PutKeepFirst(layer, tag, handler) ==
    [t \in (DOMAIN layer) \cup {tag} |-> IF t \in DOMAIN layer THEN layer[t] ELSE handler]

\* self._handler_stack[-1][event] = handler
Put(layer, tag, handler) ==
    [t \in (DOMAIN layer) \cup {tag} |-> IF t = tag THEN handler ELSE layer[t]]

\* handlers.get(event.type, None)
LayerGet(layer, tag) == IF tag \in DOMAIN layer THEN layer[tag] ELSE None

Truthy(v) == v # None /\ v # ""

\* event.type
TypeOf(im, e) ==
    IF im = "events"
    THEN IF e.kwtype # None THEN e.kwtype ELSE e.clstype
    ELSE e.clstype

\* Mutant: the assertion is missing.
IsInstanceEventAny(e) == TRUE

\* isinstance(event, Event)
IsInstanceEvent(e) == e.cls \in {"Event", "KeyEvent", "EmptyEvent"}

\* Mutant: the new layer is inserted at the bottom of the stack.
ListInsertFirst(s, x) == <<x>> \o s

\* list.append(x)
ListAppend(s, x) == Append(s, x)

\* Mutant: an empty list is tolerated and None returned.
ListPopQuiet(s) ==
    IF s = <<>>
    THEN [err |-> "ok", value |-> None, rest |-> s]
    ELSE [err |-> "ok", value |-> s[Len(s)], rest |-> SubSeq(s, 1, Len(s) - 1)]

\* Mutant: the last element is returned but stays in the list.
ListPopKeep(s) ==
    IF s = <<>>
    THEN [err |-> "IndexError", value |-> None, rest |-> s]
    ELSE [err |-> "ok", value |-> s[Len(s)], rest |-> s]

\* list.pop(): the last element, or IndexError on an empty list.
ListPop(s) ==
    IF s = <<>>
    THEN [err |-> "IndexError", value |-> None, rest |-> s]
    ELSE [err |-> "ok", value |-> s[Len(s)], rest |-> SubSeq(s, 1, Len(s) - 1)]

\* Mutant: the stack is set to [] on every call.
EnsureStackAlways(has, s) == <<>>

\* if not hasattr(self, '_handler_stack'): self._handler_stack = []
EnsureStack(has, s) == IF has THEN s ELSE <<>>

\* Mutant: the walk starts at the oldest layer.
IterStartOldest(s) == IF s = <<>> THEN 0 ELSE 1

\* reversed(list): the index the iterator starts at.
IterStart(s) == Len(s)

\* Mutant: the next layer is counted from the end of the list as it is now.
IterNextFromEnd(i, grown) == i - 1 + grown

\* next() of reversed(list): the iterator keeps the index of the next item
\* counted from the front, and a list that has grown does not move it.
IterNext(i, grown) == i - 1

\* Mutant: the events are taken last to first.
EventAtReversed(evs, k) == evs[Len(evs) + 1 - k]

\* for event in events: the k-th event taken.
EventAt(evs, k) == evs[k]

\* What calling the handler does: Behaviour of the callable.
Result(handler) == Behaviour[handler]

Raises(result) == result \in {"E", "B"}

\* The exception the fixture handlers raise.
ExceptionName(result) == IF result = "E" THEN "ValueError" ELSE "KeyboardInterrupt"

\* Mutant: the break is missing.
StopsWalkNever(result) == FALSE

\* Mutant: the test is inverted.
StopsWalkInverted(result) == result # "T"

\* if handler(event): break
StopsWalk(result) == result = "T"

\* ---------------------------------------------------------------- registry
\* What a class body says about type: nothing (the attribute is inherited),
\* or type = None, '', 'key', 'click'.
Inherit == "inherit"

OwnTypes == {Inherit, None, "", "key", "click"}

\* getattr(cls, 'type') for a class with the given base (0 is Event itself,
\* whose type is None) and body: the class's own attribute, or the base's.
RECURSIVE GetAttrType(_, _, _)
GetAttrType(decls, parent, own) ==
    IF own # Inherit THEN own
    ELSE IF parent = 0 THEN None
    ELSE GetAttrType(decls, decls[parent].parent, decls[parent].own)

\* Mutant: every registration is added at the end, also for a known tag.
RegistryPutAppend(reg, tag, cls) == Append(reg, [tag |-> tag, cls |-> cls])

\* cls.registry[type_] = cls on an OrderedDict: a known key keeps its place
\* and takes the new value, a new key goes to the end.
RegistryPut(reg, tag, cls) ==
    IF \E i \in 1..Len(reg) : reg[i].tag = tag
    THEN [i \in 1..Len(reg) |-> IF reg[i].tag = tag THEN [tag |-> tag, cls |-> cls] ELSE reg[i]]
    ELSE Append(reg, [tag |-> tag, cls |-> cls])

\* Event.event_types(): cls.registry.keys()
EventTypes(reg) == [i \in 1..Len(reg) |-> reg[i].tag]

\* class C(parent): [type = own]   Registrable.__init__ runs for the new class,
\* which is known by its place in the order of declaration.
Declare(parent, own) ==
    /\ pc = "idle"
    /\ Len(declared) < MaxClasses
    /\ LET type_ == GetAttrType(declared, parent, own)
       IN  registry' = IF Truthy(type_)
                       THEN RegistryPut(registry, type_, Len(declared) + 1)
                       ELSE registry
    /\ declared' = Append(declared, [parent |-> parent, own |-> own])
    /\ given' = <<parent, own>>
    /\ op' = "class"
    /\ UNCHANGED <<impl, _handler_to_event, hasStack, _handler_stack, made, pc, outcome, pre, ret,
                   events, n, it, trace, encoder, queue, net, cmd, reports>>

\* ------------------------------------------------------------------ rotary
ENC_STATES == <<0, -1, 1, 0, 1, 0, 0, -1, -1, 0, 0, 1, 0, 1, -1, 0>>

ACCEL_THRESHOLD == 5

DefaultMaxVal == 100

Min(a, b) == IF a < b THEN a ELSE b

Max(a, b) == IF a > b THEN a ELSE b

\* The constructor arguments: min_val <= max_val taken from -1..MaxEnd, or
\* the default 0..100; accel 0 (the default) or 40.  For these values the
\* float product (max_val - min_val) / 100 * accel, truncated by int(), is the
\* integer quotient below.
Configs ==
    { [min_val |-> lo, max_val |-> hi, clicks |-> c, accel |-> a, reverse |-> r] :
        lo \in -1..MaxEnd, hi \in (-1..MaxEnd) \cup {DefaultMaxVal},
        c \in 1..MaxClicks, a \in {0, 40}, r \in BOOLEAN }

ValidConfigs == {cfg \in Configs : cfg.min_val <= cfg.max_val}

\* RotaryEncoder.__init__
Construct(cfg) ==
    [min_val |-> cfg.min_val * cfg.clicks,
     max_val |-> cfg.max_val * cfg.clicks,
     accel |-> ((cfg.max_val - cfg.min_val) * cfg.accel) \div 100,
     max_accel |-> (cfg.max_val - cfg.min_val) \div 2,
     clicks |-> cfg.clicks,
     reverse |-> IF cfg.reverse THEN 1 ELSE -1,
     _value |-> 0,
     _readings |-> 0,
     _state |-> 0,
     cur_accel |-> 0]

\* (self._readings << 2 | clk << 1 | dt) & 0x0f
NextReadings(readings, clk, dt) == ((readings * 4) + (clk * 2) + dt) % 16

\* x >> k for Python ints: the floor of x / 2^k
ShiftRight(x, k) == x \div (2 ^ k)

\* _cb(ch) with GPIO.input(pin_clk) = clk and GPIO.input(pin_dt) = dt
AfterCb(enc, clk, dt) ==
    LET readings == NextReadings(enc._readings, clk, dt)
        state == ENC_STATES[readings + 1] * enc.reverse
        accel == Min(enc.max_accel, enc.cur_accel + enc.accel)
    IN  IF state # 0
        THEN [enc EXCEPT !._readings = readings,
                         !._state = state,
                         !.cur_accel = accel,
                         !._value = Min(enc.max_val,
                                        Max(enc.min_val,
                                            enc._value
                                              + (1 + ShiftRight(accel, ACCEL_THRESHOLD)) * state))]
        ELSE [enc EXCEPT !._readings = readings, !._state = state]

\* The value property: self._value // self.clicks
Value(enc) == enc._value \div enc.clicks

\* A pin changes and GPIO calls _cb; the pins read clk and dt.
Cb(clk, dt) ==
    /\ encoder' = AfterCb(encoder, clk, dt)
    /\ UNCHANGED <<impl, _handler_to_event, hasStack, _handler_stack, made, pc, op, outcome, pre,
                   ret, events, n, it, trace, given, registry, declared, queue, net, cmd, reports>>

\* reset()
Reset ==
    /\ encoder' = [encoder EXCEPT !._value = 0]
    /\ UNCHANGED <<impl, _handler_to_event, hasStack, _handler_stack, made, pc, op, outcome, pre,
                   ret, events, n, it, trace, given, registry, declared, queue, net, cmd, reports>>

\* --------------------------------------------------------------- OSC shell
\* The command thread runs do_osc for one line at a time; the server thread
\* runs osc_recv for every message that arrives.  A message sent is known by
\* the number of the do_osc invocation that sent it, and a reply carries the
\* number of the message it answers.
Unused == <<impl, _handler_to_event, hasStack, _handler_stack, made, pc, op, outcome, pre, ret,
            events, n, it, trace, given, registry, declared, encoder>>

\* Queue.put(item) and Queue.get(): first in, first out.
QueuePut(q, item) == Append(q, item)

QueueGet(q) == [item |-> Head(q), rest |-> Tail(q)]

\* do_osc(''): if not line: return self.help_osc()
DoOscHelp ==
    /\ cmd.pc = "prompt"
    /\ Len(reports) < MaxLines
    /\ reports' = Append(reports, [kind |-> "help", msg |-> 0, reply |-> 0])
    /\ UNCHANGED <<queue, net, cmd>>
    /\ UNCHANGED Unused

\* do_osc(line) up to self.osc.send(...): the message is on its way, and the
\* thread goes on to self.queue.get(timeout=...).
DoOscSend ==
    /\ cmd.pc = "prompt"
    /\ Len(reports) < MaxLines
    /\ LET msg == Len(reports) + 1
       IN  /\ net' = net \cup {msg}
           /\ cmd' = [pc |-> "get", msg |-> msg]
    /\ UNCHANGED <<queue, reports>>
    /\ UNCHANGED Unused

\* osc_recv(path, args, types, addr) on the server thread: the reply to one of
\* the messages sent arrives (datagrams arrive in any order, or never).
OscRecv(reply) ==
    /\ reply \in net
    /\ queue' = QueuePut(queue, reply)
    /\ net' = net \ {reply}
    /\ UNCHANGED <<cmd, reports>>
    /\ UNCHANGED Unused

\* self.queue.get(timeout=self.timeout / 1000) returns the oldest item and
\* do_osc prints it, or the queue stays empty for the whole timeout and
\* do_osc prints the warning.
DoOscGet ==
    /\ cmd.pc = "get"
    /\ IF queue # <<>>
       THEN /\ queue' = QueueGet(queue).rest
            /\ reports' = Append(reports, [kind |-> "reply", msg |-> cmd.msg,
                                           reply |-> QueueGet(queue).item])
       ELSE /\ queue' = queue
            /\ reports' = Append(reports, [kind |-> "timeout", msg |-> cmd.msg, reply |-> 0])
    /\ cmd' = [pc |-> "prompt", msg |-> 0]
    /\ UNCHANGED net
    /\ UNCHANGED Unused

\* ---------------------------------------------------------------- on_event
\* is_event(event), for the targets used here: a str is no event, an Event
\* subclass is one.
IsEvent(target) == target.kind = "class"

\* event.type if is_event(event) else event
MarkerFor(target) == IF IsEvent(target) THEN target.type ELSE target.value

\* Mutant: a callable that is already bound keeps its first target.
BindKeepFirst(b, func, tag) ==
    [f \in (DOMAIN b) \cup {func} |-> IF f \in DOMAIN b THEN b[f] ELSE tag]

\* func._handler_for = ... in events.py, _handler_to_event[func] = ... in
\* uevents.py
Bind(b, func, tag) ==
    [f \in (DOMAIN b) \cup {func} |-> IF f = func THEN tag ELSE b[f]]

\* on_event(target)(func)
OnEvent(func, target) ==
    /\ pc = "idle"
    /\ _handler_to_event' = Bind(_handler_to_event, func, MarkerFor(target))
    /\ op' = "on_event"
    /\ outcome' = "ok"
    /\ pre' = _handler_stack
    /\ ret' = func
    /\ given' = <<func, target>>
    /\ events' = <<>>
    /\ n' = 0
    /\ it' = 0
    /\ trace' = <<>>
    /\ UNCHANGED <<impl, hasStack, _handler_stack, made, pc, registry, declared,
                   encoder, queue, net, cmd, reports>>

\* ----------------------------------------------------------- push_handlers
\* name.startswith('__')
StartsWithDunder(name) == name \in {"__init__"}

\* hasattr(obj, '_handler_for') in events.py; obj in _handler_to_event in
\* uevents.py.  Only a decorated function carries the marker.
HasMarker(im, b, src) == src.kind = "function" /\ src.func \in DOMAIN b

\* inspect.getmembers evaluates every attribute first: a property whose
\* getter raises makes the whole call raise.
GetMembersRaises(src) == \E i \in 1..Len(src.members) : src.members[i].kind = "property"

IsMethod(m) == m.kind = "method"

\* inspect.getmembers(obj, predicate=inspect.ismethod) in events.py,
\* inspect.getmembers(obj) in uevents.py.
GetMembers(im, src) ==
    IF im = "events" THEN SelectSeq(src.members, IsMethod) ELSE src.members

\* The members a source is scanned through: itself when it carries the marker.
MembersOf(im, b, src) ==
    IF HasMarker(im, b, src)
    THEN << [name |-> "", kind |-> "function", func |-> src.func] >>
    ELSE GetMembers(im, src)

\* getattr(method, '_handler_for', None) in events.py: a bound method shows the
\* attributes of its function.  _handler_to_event.get(method) in uevents.py:
\* the table is keyed by the decorated function, and a bound method is another
\* object, so it is not found.
MarkerOf(im, b, m) ==
    IF im = "events"
    THEN IF m.func \in DOMAIN b THEN b[m.func] ELSE None
    ELSE IF m.kind = "function" /\ m.func \in DOMAIN b THEN b[m.func] ELSE None

\* _handler_to_event.get(method) hashes its argument: a list raises TypeError.
LookupRaises(im, m) == im = "uevents" /\ m.kind = "list"

\* for name, method in members: ...   The layer, and how the loop ended.
RECURSIVE ScanMembers(_, _, _, _, _)
ScanMembers(im, b, members, i, layer) ==
    IF i > Len(members) THEN [layer |-> layer, err |-> "ok"]
    ELSE LET m == members[i]
         IN  IF StartsWithDunder(m.name)
             THEN ScanMembers(im, b, members, i + 1, layer)
             ELSE IF LookupRaises(im, m)
             THEN [layer |-> layer, err |-> "TypeError"]
             ELSE LET event == MarkerOf(im, b, m)
                  IN  ScanMembers(im, b, members, i + 1,
                                  IF Truthy(event) THEN Put(layer, event, m.func) ELSE layer)

\* for obj in args: ...   The layer, and how the loop ended.
RECURSIVE ScanArgs(_, _, _, _, _)
ScanArgs(im, b, args, i, layer) ==
    IF i > Len(args) THEN [layer |-> layer, err |-> "ok"]
    ELSE LET src == args[i]
         IN  IF ~HasMarker(im, b, src) /\ GetMembersRaises(src)
             THEN [layer |-> layer, err |-> "RuntimeError"]
             ELSE LET scanned == ScanMembers(im, b, MembersOf(im, b, src), 1, layer)
                  IN  IF scanned.err # "ok" THEN scanned
                      ELSE ScanArgs(im, b, args, i + 1, scanned.layer)

\* for event, handler in kwargs.items(): self._handler_stack[-1][event] = handler
RECURSIVE ApplyKwargs(_, _, _)
ApplyKwargs(kwargs, i, layer) ==
    IF i > Len(kwargs) THEN layer
    ELSE ApplyKwargs(kwargs, i + 1, Put(layer, kwargs[i][1], kwargs[i][2]))

\* The new top layer as push_handlers leaves it, and how the call ended.
BuildLayer(im, b, call) ==
    LET scanned == ScanArgs(im, b, call.args, 1, EmptyLayer)
    IN  IF scanned.err # "ok" THEN scanned
        ELSE [layer |-> ApplyKwargs(call.kwargs, 1, scanned.layer), err |-> "ok"]

Idle == pc = "idle"

PushHandlers(call) ==
    /\ Idle
    /\ Len(_handler_stack) < MaxDepth
    /\ LET built == BuildLayer(impl, _handler_to_event, call)
       IN  /\ _handler_stack' = ListAppend(EnsureStack(hasStack, _handler_stack), built.layer)
           /\ outcome' = built.err
    /\ made' = ListAppend(EnsureStack(hasStack, made), call)
    /\ hasStack' = TRUE
    /\ op' = "push"
    /\ pre' = _handler_stack
    /\ ret' = None
    /\ events' = <<>>
    /\ n' = 0
    /\ it' = 0
    /\ trace' = <<>>
    /\ given' = <<>>
    /\ UNCHANGED <<impl, _handler_to_event, pc, registry, declared,
                   encoder, queue, net, cmd, reports>>

\* ------------------------------------------------------------ pop_handlers
\* getattr(self, '_handler_stack', []).pop()
PopHandlers ==
    /\ Idle
    /\ LET popped == ListPop(_handler_stack)
       IN  /\ outcome' = popped.err
           /\ ret' = popped.value
           /\ _handler_stack' = popped.rest
    /\ made' = ListPop(made).rest
    /\ op' = "pop"
    /\ pre' = _handler_stack
    /\ events' = <<>>
    /\ n' = 0
    /\ it' = 0
    /\ trace' = <<>>
    /\ given' = <<>>
    /\ UNCHANGED <<impl, _handler_to_event, hasStack, pc, registry, declared,
                   encoder, queue, net, cmd, reports>>

\* ---------------------------------------------------------------- dispatch
\* Mutant: both modules catch Exception only.
CatchesExceptionOnly(im, raised) == raised = "E"

\* Mutant: uevents.py lets every exception of a handler pass.
CatchesInEventsOnly(im, raised) == im = "events"

\* except: in events.py catches everything; except Exception in uevents.py
\* lets an exception derived from BaseException only pass.
Catches(im, raised) == im = "events" \/ raised = "E"

\* The inner loop of dispatch as a function of the stack and the event's
\* type: the invocations [layer, handler] made from layer i downwards.
RECURSIVE WalkFrom(_, _, _, _)
WalkFrom(im, stack, tag, i) ==
    IF i < 1 \/ i > Len(stack) THEN <<>>
    ELSE LET handler == LayerGet(stack[i], tag)
             result == Result(handler)
         IN  IF ~Truthy(handler)
             THEN WalkFrom(im, stack, tag, i - 1)
             ELSE <<[layer |-> i, handler |-> handler]>> \o
                  (IF Raises(result)
                   THEN IF Catches(im, result) THEN WalkFrom(im, stack, tag, i - 1) ELSE <<>>
                   ELSE IF StopsWalk(result) THEN <<>> ELSE WalkFrom(im, stack, tag, i - 1))

\* for handlers in reversed(self._handler_stack): ...  for one event.
Walk(im, stack, tag) == WalkFrom(im, stack, tag, IterStart(stack))

\* dispatch(*events) is entered: the stack attribute is created if missing.
Dispatch(evs) ==
    /\ Idle
    /\ hasStack' = TRUE
    /\ pc' = "next"
    /\ op' = "dispatch"
    /\ outcome' = "running"
    /\ pre' = _handler_stack
    /\ ret' = None
    /\ events' = evs
    /\ n' = 0
    /\ it' = 0
    /\ trace' = <<>>
    /\ given' = <<>>
    /\ _handler_stack' = EnsureStack(hasStack, _handler_stack)
    /\ made' = EnsureStack(hasStack, made)
    /\ UNCHANGED <<impl, _handler_to_event, registry, declared,
                   encoder, queue, net, cmd, reports>>

\* for event in events: assert isinstance(event, Event); the inner loop's
\* iterator reversed(self._handler_stack) starts at the last layer.
DispatchNext ==
    /\ pc = "next"
    /\ IF n = Len(events)
       THEN /\ pc' = "done"
            /\ outcome' = "ok"
            /\ UNCHANGED <<n, it>>
       ELSE IF ~IsInstanceEvent(EventAt(events, n + 1))
       THEN /\ pc' = "done"
            /\ outcome' = "AssertionError"
            /\ UNCHANGED <<n, it>>
       ELSE /\ pc' = "walk"
            /\ n' = n + 1
            /\ it' = IterStart(_handler_stack)
            /\ UNCHANGED outcome
    /\ UNCHANGED <<impl, _handler_to_event, hasStack, _handler_stack, made, op, pre, ret,
                   events, trace, given, registry, declared,
                   encoder, queue, net, cmd, reports>>

\* The handler's own calls on the dispatcher, made before it returns.
CallsPush(handler) == handler \in DOMAIN Reentrant

AfterHandler(im, b, stack, handler) ==
    IF Truthy(handler) /\ CallsPush(handler)
    THEN ListAppend(stack, BuildLayer(im, b, Reentrant[handler]).layer)
    ELSE stack

\* One turn of: for handlers in reversed(self._handler_stack): ...
DispatchWalk ==
    /\ pc = "walk"
    /\ IF it < 1 \/ it > Len(_handler_stack)
       THEN /\ pc' = "next"
            /\ UNCHANGED <<it, trace, outcome, _handler_stack, made>>
       ELSE LET handler == LayerGet(_handler_stack[it], TypeOf(impl, EventAt(events, n)))
                result == Result(handler)
            IN  /\ _handler_stack' = AfterHandler(impl, _handler_to_event, _handler_stack, handler)
                /\ made' = IF Truthy(handler) /\ CallsPush(handler)
                           THEN ListAppend(made, Reentrant[handler])
                           ELSE made
                /\ it' = IterNext(it, Len(_handler_stack') - Len(_handler_stack))
                /\ IF ~Truthy(handler)
                   THEN UNCHANGED <<pc, trace, outcome>>
                   ELSE /\ trace' = Append(trace, [ev |-> n, layer |-> it, handler |-> handler])
                        /\ IF Raises(result)
                           THEN IF Catches(impl, result)
                                THEN UNCHANGED <<pc, outcome>>
                                ELSE /\ pc' = "done"
                                     /\ outcome' = ExceptionName(result)
                           ELSE /\ pc' = IF StopsWalk(result) THEN "next" ELSE "walk"
                                /\ UNCHANGED outcome
    /\ UNCHANGED <<impl, _handler_to_event, hasStack, op, pre, ret,
                   events, n, given, registry, declared,
                   encoder, queue, net, cmd, reports>>

\* dispatch has returned or raised: control is back in the caller and the
\* locals of the call (events, event, the iterator) are gone.
DispatchReturn ==
    /\ pc = "done"
    /\ pc' = "idle"
    /\ events' = <<>>
    /\ n' = 0
    /\ it' = 0
    /\ trace' = <<>>
    /\ UNCHANGED <<impl, _handler_to_event, hasStack, _handler_stack, made, op, outcome, pre, ret,
                   given, registry, declared,
                   encoder, queue, net, cmd, reports>>

\* ----------------------------------------------------------- specification
InitDispatcher ==
    /\ impl \in Impls
    /\ _handler_to_event = Decorated
    /\ hasStack = FALSE
    /\ _handler_stack = <<>>
    /\ made = <<>>
    /\ pc = "idle"
    /\ op = "none"
    /\ outcome = "none"
    /\ pre = <<>>
    /\ ret = None
    /\ events = <<>>
    /\ n = 0
    /\ it = 0
    /\ trace = <<>>
    /\ given = <<>>
    /\ registry = <<>>
    /\ declared = <<>>

\* No encoder has been made, and the OSC shell has sent nothing.
Init ==
    /\ InitDispatcher
    /\ encoder = None
    /\ queue = <<>>
    /\ net = {}
    /\ cmd = [pc |-> "prompt", msg |-> 0]
    /\ reports = <<>>

Next ==
    \/ \E call \in PushCalls : PushHandlers(call)
    \/ PopHandlers
    \/ \E evs \in DispatchCalls : Dispatch(evs)
    \/ DispatchNext
    \/ DispatchWalk
    \/ DispatchReturn

Spec == Init /\ [][Next]_vars

\* The registration paths: on_event, push_handlers through every path of
\* RegisterCalls, pop_handlers, and dispatch of one event.
NextRegister ==
    \/ \E func \in BindFuncs, target \in BindTargets : OnEvent(func, target)
    \/ \E call \in RegisterCalls : PushHandlers(call)
    \/ PopHandlers
    \/ \E e \in RegisterEvents : Dispatch(<<e>>)
    \/ DispatchNext
    \/ DispatchWalk
    \/ DispatchReturn

SpecRegister == Init /\ [][NextRegister]_vars

\* Handlers that push a layer while an event is dispatched.
NextReentrant ==
    \/ \E call \in ReentrantCalls : PushHandlers(call)
    \/ PopHandlers
    \/ \E evs \in ReentrantDispatches : Dispatch(evs)
    \/ DispatchNext
    \/ DispatchWalk
    \/ DispatchReturn

SpecReentrant == Init /\ [][NextReentrant]_vars

\* A RotaryEncoder from its construction on, under pin callbacks and resets.
InitRotary ==
    /\ InitDispatcher
    /\ impl = "events"
    /\ encoder \in {Construct(cfg) : cfg \in ValidConfigs}
    /\ queue = <<>>
    /\ net = {}
    /\ cmd = [pc |-> "prompt", msg |-> 0]
    /\ reports = <<>>

NextRotary ==
    \/ \E clk \in 0..1, dt \in 0..1 : Cb(clk, dt)
    \/ Reset

SpecRotary == InitRotary /\ [][NextRotary]_vars

\* The OSC shell: command lines, replies arriving, and timeouts.
InitShell == Init /\ impl = "events"

NextShell ==
    \/ DoOscHelp
    \/ DoOscSend
    \/ \E reply \in 1..MaxLines : OscRecv(reply)
    \/ DoOscGet

SpecShell == InitShell /\ [][NextShell]_vars

\* The event type registry of events.py under a sequence of class
\* declarations.
InitRegistry == Init /\ impl = "events"

NextRegistry == \E parent \in 0..Len(declared), own \in OwnTypes : Declare(parent, own)

SpecRegistry == InitRegistry /\ [][NextRegistry]_vars

\* ------------------------------------------------------------------ claims
\* What the claims speak about, read off the state and the call's arguments.

\* The type of the k-th event given to the current dispatch call.
TagOfEvent(k) == TypeOf(impl, events[k])

\* Layer i holds a handler for the k-th event's type.
Holds(i, k) == TagOfEvent(k) \in DOMAIN _handler_stack[i] /\ _handler_stack[i][TagOfEvent(k)] # None

Holders(k) == {i \in 1..Len(_handler_stack) : Holds(i, k)}

HandlerAt(i, k) == _handler_stack[i][TagOfEvent(k)]

\* The layers whose handler was invoked for the k-th event.
Invoked(k) == {trace[p].layer : p \in {q \in 1..Len(trace) : trace[q].ev = k}}

\* How often layer i's handler was invoked for the k-th event.
Times(i, k) == Cardinality({p \in 1..Len(trace) : trace[p].ev = k /\ trace[p].layer = i})

SetMax(S) == CHOOSE x \in S : \A y \in S : y <= x

\* The next more recent layer above i that holds a handler for the k-th event.
NextNewer(i, k) == CHOOSE j \in Holders(k) : j > i /\ \A m \in Holders(k) : m > i => j <= m

\* The walk goes on after layer i's handler: it returned a falsy value, or it
\* raised and the dispatcher swallowed the exception.
GoesOn(i, k) ==
    LET r == Behaviour[HandlerAt(i, k)]
    IN  r = "F" \/ r = "E" \/ (r = "B" /\ impl = "events")

Done == pc = "done"

\* C1 (amended): within one event the handlers are invoked from the most recent
\* layer to the oldest, at most one per layer and only handlers registered for
\* the event's type; the most recent layer holding such a handler is invoked
\* first; and for two layers A (older) and B holding such handlers with none
\* between them, A's handler is invoked exactly when B's was invoked and
\* either returned a falsy value or raised an exception the dispatcher
\* swallowed.
C1_StackOrder ==
    /\ \A p, q \in 1..Len(trace) :
          (p < q /\ trace[p].ev = trace[q].ev) => trace[p].layer > trace[q].layer
    /\ \A p \in 1..Len(trace) :
          /\ trace[p].layer \in Holders(trace[p].ev)
          /\ trace[p].handler = HandlerAt(trace[p].layer, trace[p].ev)
    /\ Done =>
          \A k \in 1..n : \A A \in Holders(k) :
             IF A = SetMax(Holders(k))
             THEN /\ A \in Invoked(k)
                  /\ \A p \in 1..Len(trace) : trace[p].ev = k => trace[p].layer <= A
             ELSE LET B == NextNewer(A, k)
                  IN  A \in Invoked(k) <=> (B \in Invoked(k) /\ GoesOn(B, k))

\* C1 witness: a finished dispatch in which the most recent handler raised and
\* the older layer's handler was invoked after it.
C1_Witness ==
    /\ Done
    /\ \E k \in 1..n : \E A, B \in Holders(k) :
          /\ A < B /\ B = SetMax(Holders(k))
          /\ Behaviour[HandlerAt(B, k)] = "E"
          /\ {A, B} \subseteq Invoked(k)

\* C1 as stated, for dispatch calls that return normally: with B the most
\* recent layer holding a handler and A the next older one, B's handler is
\* invoked, and A's is invoked only if B's returned a falsy value.
C1_Original ==
    (Done /\ outcome = "ok") =>
       \A k \in 1..n : \A A, B \in Holders(k) :
          (B = SetMax(Holders(k)) /\ A < B /\ B = NextNewer(A, k)) =>
             /\ B \in Invoked(k)
             /\ A \in Invoked(k) <=> Behaviour[HandlerAt(B, k)] = "F"

\* C2: once a handler has returned a truthy value for an event, no handler of
\* an older layer is invoked for that event: an invocation that returned
\* truthy is the last one of its event.
C2_ShortCircuit ==
    \A p, q \in 1..Len(trace) :
       (trace[p].ev = trace[q].ev /\ Behaviour[trace[p].handler] = "T" /\ p # q) =>
          (q < p /\ trace[q].layer > trace[p].layer)

\* C2 witness: a finished dispatch in which the most recent handler returned
\* truthy while an older layer also held a handler for the event.
C2_Witness ==
    /\ Done
    /\ \E k \in 1..n : \E A, B \in Holders(k) :
          /\ A < B
          /\ B \in Invoked(k)
          /\ Behaviour[HandlerAt(B, k)] = "T"
          /\ A \notin Invoked(k)

\* The call's argument at k is not an event.
IsBad(k) == events[k] = BadValue

\* The position of the first non-event argument, Len(events) + 1 if none.
FirstBad ==
    IF \E k \in 1..Len(events) : IsBad(k)
    THEN CHOOSE k \in 1..Len(events) : IsBad(k) /\ \A j \in 1..(k - 1) : ~IsBad(j)
    ELSE Len(events) + 1

\* The p-th invocation raised and the dispatcher swallowed the exception.
Swallowed(p) ==
    LET r == Behaviour[trace[p].handler]
    IN  r = "E" \/ (r = "B" /\ impl = "events")

\* The k-th event reached the handlers: it was taken, and the most recent layer
\* holding a handler for its type was invoked.
Dispatched(k) == k <= n /\ (Holders(k) # {} => SetMax(Holders(k)) \in Invoked(k))

\* C3 (amended): a handler that raises an exception derived from Exception (in
\* events.py: any exception) is contained: the next older layer's handler for
\* the same event is invoked right after it, the later events of the call are
\* still dispatched, and dispatch does not end with that exception.  In
\* uevents.py an exception not derived from Exception (KeyboardInterrupt,
\* SystemExit) is not caught: it ends the dispatch call and reaches the caller.
C3_Containment ==
    /\ \A p \in 1..Len(trace) :
          (Behaviour[trace[p].handler] = "B" /\ impl = "uevents") =>
             (p = Len(trace) /\ Done /\ outcome = "KeyboardInterrupt")
    /\ Done =>
          /\ outcome \in {"ok", "AssertionError", "KeyboardInterrupt"}
          /\ outcome = "KeyboardInterrupt" =>
                (impl = "uevents" /\ trace # <<>> /\ Behaviour[trace[Len(trace)].handler] = "B")
          /\ \A p \in 1..Len(trace) : Swallowed(p) =>
                LET k == trace[p].ev
                    older == {A \in Holders(k) : A < trace[p].layer}
                IN  /\ older # {} =>
                          /\ p < Len(trace)
                          /\ trace[p + 1].ev = k
                          /\ trace[p + 1].layer = SetMax(older)
                    /\ outcome # "KeyboardInterrupt" =>
                          \A j \in (k + 1)..(FirstBad - 1) : Dispatched(j)

\* C3 witness: in events.py a handler raised KeyboardInterrupt, the older
\* layer's handler was invoked for the same event, and a later event of the
\* call was dispatched to a handler.
C3_Witness ==
    /\ Done /\ outcome = "ok" /\ impl = "events"
    /\ \E p \in 1..Len(trace) :
          /\ Behaviour[trace[p].handler] = "B"
          /\ p < Len(trace) /\ trace[p + 1].ev = trace[p].ev
          /\ \E q \in 1..Len(trace) : trace[q].ev > trace[p].ev

\* C3 as stated: whatever a handler raises, in both implementations, the next
\* older layer's handler is invoked and no exception of a handler reaches the
\* caller of dispatch.
C3_Original ==
    Done =>
       /\ outcome \notin {"ValueError", "KeyboardInterrupt"}
       /\ \A p \in 1..Len(trace) : Raises(Behaviour[trace[p].handler]) =>
             \A A \in Holders(trace[p].ev) : A < trace[p].layer =>
                \E q \in 1..Len(trace) : q > p /\ trace[q].ev = trace[p].ev

\* C4: pop_handlers on an empty stack ends with IndexError, returns nothing,
\* and leaves the stack empty; IndexError is raised in no other case.
C4_PopEmpty ==
    op = "pop" =>
       /\ pre = <<>> => (outcome = "IndexError" /\ _handler_stack = <<>> /\ ret = None)
       /\ outcome = "IndexError" => pre = <<>>

\* C4 witness: pop_handlers failed on a dispatcher that has a stack attribute
\* (layers were pushed and popped, or a dispatch ran) and the stack is empty.
C4_Witness == op = "pop" /\ outcome = "IndexError" /\ hasStack /\ _handler_stack = <<>>

\* C5: a pop_handlers call that directly follows a push_handlers call succeeds,
\* returns the layer that push appended and leaves the stack as it was before
\* the push.
C5_PushPopInverse ==
    [][(op = "push" /\ pc = "idle" /\ op' = "pop") =>
          /\ outcome' = "ok"
          /\ _handler_stack' = pre
          /\ _handler_stack = Append(pre, ret')
          /\ ret' = BuildLayer(impl, _handler_to_event, made[Len(made)]).layer]_vars

\* C5 witness: a pop that took a layer off a stack of two and left one.
C5_Witness ==
    /\ op = "pop" /\ outcome = "ok"
    /\ Len(pre) = 2 /\ _handler_stack = SubSeq(pre, 1, 1) /\ ret = pre[2]

\* C6 (amended, with assertions enabled): dispatch fails with AssertionError
\* when it reaches a value that is not an event; the events given before it
\* have been dispatched, and the call is aborted: no event given after it is
\* dispatched.
C6_InvalidEvent ==
    /\ \A p \in 1..Len(trace) : trace[p].ev < FirstBad
    /\ n < FirstBad
    /\ Done =>
          /\ outcome = "AssertionError" =>
                /\ FirstBad <= Len(events)
                /\ n = FirstBad - 1
                /\ \A k \in 1..(FirstBad - 1) : Dispatched(k)
          /\ (FirstBad <= Len(events) /\ outcome # "KeyboardInterrupt") =>
                outcome = "AssertionError"

\* C6 witness: dispatch(e1, bad, e3) ended with AssertionError after e1's
\* handler was invoked; e3 has a handler on the stack that was not invoked.
C6_Witness ==
    /\ Done /\ outcome = "AssertionError"
    /\ Len(events) = 3 /\ FirstBad = 2 /\ ~IsBad(3)
    /\ Invoked(1) # {}
    /\ Holders(3) # {} /\ Invoked(3) = {}

\* C6 as stated: the malformed value raises the invalid-event error and only
\* that value is skipped: every valid event of the call, before or after it,
\* that has a handler on the stack reaches a handler.
C6_Original ==
    (Done /\ outcome # "KeyboardInterrupt") =>
       /\ FirstBad <= Len(events) => outcome = "AssertionError"
       /\ \A k \in 1..Len(events) : (~IsBad(k) /\ Holders(k) # {}) => Invoked(k) # {}

\* The registrations a push_handlers call was asked to make: the layer it
\* builds when every attribute of its sources can be read and looked up.
Readable(src) == [src EXCEPT !.members = SelectSeq(src.members, IsMethod)]

Registrations(call) ==
    BuildLayer(impl, _handler_to_event,
               [args |-> [i \in 1..Len(call.args) |-> Readable(call.args[i])],
                kwargs |-> call.kwargs]).layer

\* C7: whenever a dispatch can begin, every layer on the stack holds the
\* complete set of registrations of the push_handlers call that created it.
C7_PushAtomic ==
    pc = "idle" => \A i \in 1..Len(_handler_stack) : _handler_stack[i] = Registrations(made[i])

\* C8 (amended): a layer's handler is invoked at most once per event; it is
\* invoked exactly once when every more recent layer's handler for the event's
\* type returned a falsy value or raised an exception the dispatcher swallowed
\* (in particular when no more recent layer holds one), and not at all
\* otherwise.
C8_ExactlyOnce ==
    /\ \A k \in 1..n : \A i \in 1..Len(_handler_stack) : Times(i, k) <= 1
    /\ Done =>
          \A k \in 1..n : \A i \in 1..Len(_handler_stack) :
             Times(i, k) =
                IF i \in Holders(k) /\ \A j \in Holders(k) : j > i => GoesOn(j, k)
                THEN 1 ELSE 0

\* C8 witness: one event was dispatched to a stack of two layers that both hold
\* a handler for its type, and each was invoked once.
C8_Witness ==
    /\ Done /\ outcome = "ok" /\ Len(events) = 1
    /\ Holders(1) = {1, 2}
    /\ Times(1, 1) = 1 /\ Times(2, 1) = 1

\* C8 as stated, for dispatch calls that return normally: dispatching one
\* event invokes the handler of every layer that holds one for the event's
\* type exactly once.
C8_Original ==
    (Done /\ outcome = "ok" /\ Len(events) = 1) => \A i \in Holders(1) : Times(i, 1) = 1

\* C9: an event whose type has no handler in any layer invokes no handler, and
\* a dispatch call made only of such events returns normally with nothing
\* invoked; this includes every dispatch on an empty stack.
C9_NoHandler ==
    /\ \A k \in 1..Len(events) : Holders(k) = {} => Invoked(k) = {}
    /\ Done =>
          ((\A k \in 1..Len(events) : ~IsBad(k) /\ Holders(k) = {}) =>
              (outcome = "ok" /\ trace = <<>> /\ n = Len(events)))

\* C9 witness: a dispatch of two events returned normally on a non-empty stack
\* that holds no handler for either of them.
C9_Witness ==
    /\ Done /\ outcome = "ok" /\ _handler_stack # <<>> /\ Len(events) = 2
    /\ \A i \in 1..Len(_handler_stack) : DOMAIN _handler_stack[i] # {}
    /\ \A k \in 1..2 : ~IsBad(k) /\ Holders(k) = {}

\* C10: the events of one dispatch call are processed in the order given: the
\* invocations are grouped by event in argument order, never past the event
\* being processed, and each invokes the handler registered for the type of
\* the event at that position of the argument list.
C10_EventOrder ==
    /\ \A p, q \in 1..Len(trace) : p < q => trace[p].ev <= trace[q].ev
    /\ \A p \in 1..Len(trace) :
          /\ trace[p].ev \in 1..n
          /\ Holds(trace[p].layer, trace[p].ev)
          /\ trace[p].handler = HandlerAt(trace[p].layer, trace[p].ev)
    /\ (pc = "walk" /\ trace # <<>>) => trace[Len(trace)].ev <= n

\* C10 witness: a finished dispatch of events of two different types in which
\* the first event reached two handlers and the second event one after them.
C10_Witness ==
    /\ Done /\ Len(trace) >= 3
    /\ trace[1].ev = 1 /\ trace[2].ev = 1 /\ trace[3].ev = 2
    /\ TagOfEvent(1) # TagOfEvent(2)

Pushed == pc = "idle" /\ op = "push" /\ outcome = "ok"

LastCall == made[Len(made)]

TopLayer == _handler_stack[Len(_handler_stack)]

\* What the i-th positional source of the call registers when pushed alone.
Alone(call, i) ==
    BuildLayer(impl, _handler_to_event, [args |-> <<call.args[i]>>, kwargs |-> <<>>]).layer

\* The positional sources of the call that register a handler for the tag,
\* and the keyword bindings of the call that name it.
SourcesFor(call, tag) == {i \in 1..Len(call.args) : tag \in DOMAIN Alone(call, i)}

KeywordsFor(call, tag) == {i \in 1..Len(call.kwargs) : call.kwargs[i][1] = tag}

\* C12: the layer a push_handlers call creates holds, for each tag, the
\* handler of the keyword binding naming the tag if there is one, otherwise
\* the handler of the last positional source registering the tag, and no
\* handler at all for a tag that neither names.
C12_LastWriteWins ==
    Pushed =>
       \A tag \in Tags \cup {""} :
          LET kw == KeywordsFor(LastCall, tag)
              pos == SourcesFor(LastCall, tag)
          IN  IF kw # {} THEN /\ tag \in DOMAIN TopLayer
                              /\ TopLayer[tag] = LastCall.kwargs[SetMax(kw)][2]
              ELSE IF pos # {} THEN /\ tag \in DOMAIN TopLayer
                                    /\ TopLayer[tag] = Alone(LastCall, SetMax(pos))[tag]
              ELSE tag \notin DOMAIN TopLayer

\* C12 witness: the stack holds a layer whose keyword binding replaced the
\* handler a positional source of the same call registered for the tag, and
\* on top of it a layer in which a later positional source replaced an
\* earlier one's handler.
C12_Witness ==
    /\ Pushed
    /\ Len(_handler_stack) = 2
    /\ \E tag \in Tags :
          /\ KeywordsFor(made[1], tag) # {} /\ SourcesFor(made[1], tag) # {}
          /\ _handler_stack[1][tag] = made[1].kwargs[SetMax(KeywordsFor(made[1], tag))][2]
          /\ _handler_stack[1][tag] # Alone(made[1], SetMax(SourcesFor(made[1], tag)))[tag]
    /\ \E tag \in Tags : \E i, j \in SourcesFor(LastCall, tag) :
          /\ i < j
          /\ Alone(LastCall, i)[tag] # Alone(LastCall, j)[tag]
          /\ TopLayer[tag] = Alone(LastCall, j)[tag]

\* The callables of a positional source that on_event has bound: the source
\* itself when it is a bound function, the bound methods of an object.
BoundOf(src) ==
    IF src.kind = "function"
    THEN {src.func} \cap DOMAIN _handler_to_event
    ELSE {src.members[i].func : i \in {j \in 1..Len(src.members) : src.members[j].kind = "method"}}
            \cap DOMAIN _handler_to_event

\* Every attribute of the source can be read and looked up.
Plain(src) == \A i \in 1..Len(src.members) : src.members[i].kind = "method"

\* C13: a callable f bound to a tag and passed to push_handlers as a
\* positional source, directly or as a method of the source object, is
\* registered for its tag in the new layer (when nothing later in the call
\* writes the same tag), and a dispatched event of that type invokes f through
\* the top layer.
C13_BoundDiscovery ==
    (pc = "done" /\ _handler_stack # <<>>) =>
       \A k \in 1..n : \A i \in 1..Len(LastCall.args) : \A f \in BoundOf(LastCall.args[i]) :
          ( /\ \A j \in 1..Len(LastCall.args) : Plain(LastCall.args[j])
            /\ _handler_to_event[f] = TagOfEvent(k)
            /\ KeywordsFor(LastCall, TagOfEvent(k)) = {}
            /\ \A j \in (i + 1)..Len(LastCall.args) :
                  \A g \in BoundOf(LastCall.args[j]) : _handler_to_event[g] # TagOfEvent(k) )
          => /\ TagOfEvent(k) \in DOMAIN TopLayer
             /\ TopLayer[TagOfEvent(k)] = f
             /\ \E p \in 1..Len(trace) :
                   trace[p] = [ev |-> k, layer |-> Len(_handler_stack), handler |-> f]

\* C14: an event whose type is absent or empty is never routed: no handler
\* is invoked for it, whatever push_handlers calls built the stack.
C14_UntypedNotRouted ==
    \A p \in 1..Len(trace) : TagOfEvent(trace[p].ev) \notin {None, ""}

\* The type of the i-th declared class, and the classes carrying a tag.
TypeOfClass(i) == GetAttrType(declared, declared[i].parent, declared[i].own)

ClassesOf(tag) == {i \in 1..Len(declared) : TypeOfClass(i) = tag}

SetMin(S) == CHOOSE x \in S : \A y \in S : x <= y

\* C15: after any sequence of class declarations the registry holds each tag
\* at most once; the tags it holds are the non-empty types of the declared
\* classes (own or inherited), each mapped to the class that declared it
\* last; and event_types lists the tags in the order of their first
\* declaration.
C15_Registry ==
    LET keys == EventTypes(registry)
    IN  /\ \A p, q \in 1..Len(keys) : keys[p] = keys[q] => p = q
        /\ {keys[p] : p \in 1..Len(keys)} =
              {TypeOfClass(i) : i \in 1..Len(declared)} \ {None, ""}
        /\ \A p \in 1..Len(registry) : registry[p].cls = SetMax(ClassesOf(registry[p].tag))
        /\ \A p, q \in 1..Len(keys) :
              p < q => SetMin(ClassesOf(keys[p])) < SetMin(ClassesOf(keys[q]))

\* C15 witness: two tags are registered; the first was declared again by a
\* later subclass that inherits it, which is now the registered class, while
\* the tag kept its place; and a class whose type is empty is not registered.
C15_Witness ==
    /\ Len(registry) = 2
    /\ \E i \in ClassesOf(registry[1].tag) :
          /\ declared[i].own = Inherit
          /\ registry[1].cls = i
          /\ i > SetMin(ClassesOf(registry[2].tag))
    /\ ClassesOf("") # {}

\* C16: every on_event application returns the callable it was given, leaves
\* that callable bound to the given target alone (the tag itself, or the
\* type of the given Event subclass), whatever it was bound to before, and
\* leaves the binding of every other callable as it was.
C16_BindOverwrites ==
    [][ op' = "on_event" =>
          LET func == given'[1]
              target == given'[2]
          IN  /\ ret' = func
              /\ DOMAIN _handler_to_event' = (DOMAIN _handler_to_event) \cup {func}
              /\ _handler_to_event'[func] =
                    (IF target.kind = "class" THEN target.type ELSE target.value)
              /\ \A g \in (DOMAIN _handler_to_event) \ {func} :
                    _handler_to_event'[g] = _handler_to_event[g]
      ]_vars

\* C16 witness: handle_click, decorated for 'click' in the program text, has
\* been given to on_event('key') and is bound to 'key' only; handle_key has
\* been bound in between, and every other callable has its first binding.
C16_Witness ==
    /\ op = "on_event"
    /\ given[1] = "handle_click"
    /\ ret = "handle_click"
    /\ Decorated["handle_click"] = "click"
    /\ _handler_to_event["handle_click"] = "key"
    /\ "handle_key" \in DOMAIN _handler_to_event
    /\ \A g \in (DOMAIN Decorated) \ {"handle_click"} : _handler_to_event[g] = Decorated[g]

\* C17: a push_handlers call adds exactly one layer at the tail and leaves
\* the layers below as they were; a pop_handlers call removes the tail layer
\* and nothing else (nothing at all from an empty stack); every other step,
\* of on_event or of dispatch, leaves the stack as it was.
C17_StackDiscipline ==
    [][ LET before == Len(_handler_stack)
        IN  /\ op' = "push" =>
                  /\ Len(_handler_stack') = before + 1
                  /\ \A i \in 1..before : _handler_stack'[i] = _handler_stack[i]
            /\ op' = "pop" =>
                  /\ Len(_handler_stack') = IF before = 0 THEN 0 ELSE before - 1
                  /\ \A i \in 1..Len(_handler_stack') : _handler_stack'[i] = _handler_stack[i]
            /\ op' \notin {"push", "pop"} => _handler_stack' = _handler_stack
      ]_vars

\* C17 witness: a push_handlers call without arguments has put an empty layer
\* on top of a layer that holds handle_click under 'click', the tag it was
\* bound to when that layer was made; handle_click has been bound to 'key'
\* since, and the older layer is as it was.
C17_Witness ==
    /\ Pushed
    /\ Len(_handler_stack) = 2
    /\ LastCall = [args |-> <<>>, kwargs |-> <<>>]
    /\ TopLayer = EmptyLayer
    /\ pre = <<_handler_stack[1]>>
    /\ "click" \in DOMAIN _handler_stack[1]
    /\ _handler_stack[1]["click"] = "handle_click"
    /\ _handler_to_event["handle_click"] = "key"

\* The invocations [layer, handler] made for the k-th event, in order.
SubTrace(k) ==
    LET Of(x) == x.ev = k
        part == SelectSeq(trace, Of)
    IN  [p \in 1..Len(part) |-> [layer |-> part[p].layer, handler |-> part[p].handler]]

\* C18: from the start of a dispatch call to its end the stack is the one
\* the call found; the invocations made for an event are those the walk of
\* that stack for the event's type gives, so that two equal events of one
\* call get the same handlers in the same order.
C18_DispatchPure ==
    /\ pc # "idle" => _handler_stack = pre
    /\ pc = "done" =>
          /\ \A k \in 1..n : SubTrace(k) = Walk(impl, pre, TagOfEvent(k))
          /\ \A k, m \in 1..n : events[k] = events[m] => SubTrace(k) = SubTrace(m)

\* C18 witness: a dispatch call that was given the same event twice has
\* returned; both times the handlers of both layers were invoked, and the
\* stack of two layers is the one the call found.
C18_Witness ==
    /\ pc = "done" /\ outcome = "ok"
    /\ Len(_handler_stack) = 2 /\ _handler_stack = pre
    /\ \E k, m \in 1..n :
          /\ k < m /\ events[k] = events[m]
          /\ Len(SubTrace(k)) = 2
          /\ SubTrace(m) = SubTrace(k)

\* The invocations of a walk whose handler raises an exception derived from
\* Exception, or from BaseException only.
RaisedAt(w, what) == {p \in 1..Len(w) : Behaviour[w[p].handler] = what}

LenAtStart(k) ==
    Len(pre) + Cardinality({q \in 1..Len(trace) : trace[q].ev < k /\ trace[q].handler \in DOMAIN Reentrant})

\* The layers that held a handler for the k-th event's type at that time.
HoldersAtStart(k) == Holders(k) \cap 1..LenAtStart(k)

\* The walk for the k-th event has ended.
Walked(k) == k < n \/ (k = n /\ pc \in {"next", "done"})

\* C20: when handlers push layers during a dispatch call, the invocations for
\* an event go through layers that were on the stack when the event's walk
\* began, never through a layer pushed by a handler of that event; they visit
\* those layers from the most recent to the oldest, each at most once and
\* none skipped: the most recent holder, which includes the layers pushed for
\* earlier events of the call, is invoked first, and the next older holder
\* exactly when the handler above it was invoked and did not stop the walk.
C20_ReentrantPush ==
    /\ \A p, q \in 1..Len(trace) :
          (p < q /\ trace[p].ev = trace[q].ev) => trace[p].layer > trace[q].layer
    /\ \A p \in 1..Len(trace) : trace[p].layer \in HoldersAtStart(trace[p].ev)
    /\ \A k \in 1..n : Walked(k) =>
          \A A \in HoldersAtStart(k) :
             IF A = SetMax(HoldersAtStart(k))
             THEN A \in Invoked(k)
             ELSE LET B == SetMin({j \in HoldersAtStart(k) : j > A})
                  IN  A \in Invoked(k) <=> (B \in Invoked(k) /\ GoesOn(B, k))

\* C20 witness: for the first event the handler of the most recent layer
\* pushed a layer and the older layer's handler was invoked after it, the
\* pushed layer's handler was not; for the second event of the same call the
\* pushed layer's handler was invoked first.
C20_Witness ==
    /\ pc = "done" /\ outcome = "ok"
    /\ Len(pre) = 2 /\ Len(_handler_stack) = 3
    /\ Len(events) = 2
    /\ Len(SubTrace(1)) = 2
    /\ SubTrace(1)[1] = [layer |-> 2, handler |-> "h_push"]
    /\ SubTrace(1)[2].layer = 1
    /\ SubTrace(2) = <<[layer |-> 3, handler |-> "h_true"]>>

\* C21: the counter of a RotaryEncoder made with min_val <= max_val and
\* clicks >= 1 is within min_val * clicks .. max_val * clicks in every state
\* from construction on, so the value property is within min_val .. max_val;
\* and a callback whose reading is no single step leaves the counter alone.
C21_InRange ==
    /\ encoder.min_val <= encoder._value
    /\ encoder._value <= encoder.max_val
    /\ encoder.min_val \div encoder.clicks <= Value(encoder)
    /\ Value(encoder) <= encoder.max_val \div encoder.clicks

\* C22: the reply a do_osc invocation reports is a reply to the message that
\* invocation sent.
C22_OwnReply ==
    \A i \in 1..Len(reports) : reports[i].kind = "reply" => reports[i].reply = reports[i].msg

====
